---- MODULE Spec2Model ----
(***************************************************************************)
(* Model of cfclient/utils/input/inputreaders/sdl_gamecontroller.py:       *)
(* the SDL2GameController adapter (devices/open/close/read), its per-device *)
(* _JS objects and the _SDLEventDispatcher thread that fans SDL events out  *)
(* to the per-device queues.                                                *)
(*                                                                          *)
(* Two threads are modelled: the caller's thread, which runs the four       *)
(* adapter methods one at a time, and the dispatcher thread.  Python's      *)
(* Queue is thread safe, so put/empty/get_nowait are atomic; the axis and   *)
(* button lists are touched by the caller's thread only.                    *)
(***************************************************************************)
EXTENDS Integers, Sequences, FiniteSets, TLC

(***************************************************************************)
(* Bounds of the model.                                                    *)
(***************************************************************************)
\* largest number of controllers SDL_NumJoysticks reports
MaxDevices == 2
\* number of events the global SDL source produces in one behaviour
MaxEvents == 2
\* largest number of hardware enumerations (SDL_NumJoysticks calls)
MaxEnum == 2
\* largest SDL reference count of one controller (open() calls not yet closed)
MaxRefs == 1

(***************************************************************************)
(* Program constants.                                                      *)
(***************************************************************************)
DEADZONE == 2000
\* the divisor of line 152
AxisScale == 32767
SDL_CONTROLLER_AXIS_LEFTX == 0
SDL_CONTROLLER_AXIS_TRIGGERLEFT == 4
SDL_CONTROLLER_AXIS_TRIGGERRIGHT == 5
SDL_CONTROLLER_AXIS_MAX == 6
SDL_CONTROLLER_BUTTON_A == 0
SDL_CONTROLLER_BUTTON_DPAD_RIGHT == 14
SDL_CONTROLLER_BUTTON_MAX == 15
SDL_CONTROLLERAXISMOTION == "SDL_CONTROLLERAXISMOTION"
SDL_CONTROLLERBUTTONDOWN == "SDL_CONTROLLERBUTTONDOWN"
SDL_CONTROLLERBUTTONUP == "SDL_CONTROLLERBUTTONUP"
\* any other SDL event type (device added, window, keyboard, ...)
SDL_OTHEREVENT == "SDL_OTHEREVENT"

\* Python's None
None == "None"
\* the non-NULL pointer SDL_GameControllerOpen returns
Handle == "SDL_GameController"
\* a device id that no enumerated device has
BadId == 7
\* stands for the jdevice.which of an object that has no such attribute
NoWhich == -1

(***************************************************************************)
(* Numbers.  An axis value is the rational num/den: the list holds the     *)
(* integer 0 after open() and the quotient v / 32767.0 after an event.     *)
(***************************************************************************)
Abs(v) == IF v < 0 THEN -v ELSE v

Zero == [num |-> 0, den |-> 1]

\* the comparison x > 0 of a rational
Positive(x) == x.num > 0

\* x = 0 as numbers (0 and 0.0 are equal)
IsZero(x) == x.num = 0

\* -1 <= x <= 1
InUnit(x) == -x.den <= x.num /\ x.num <= x.den

\* |x| < n/d, by cross multiplication (all denominators are positive)
AbsBelow(x, n, d) == Abs(x.num) * d < n * x.den

\* the filter with the bound included
Deadzone_inclusive(v) == IF Abs(v) <= DEADZONE THEN 0 ELSE v

\* lines 149-150: the deadzone filter
Deadzone(v) == IF Abs(v) < DEADZONE THEN 0 ELSE v

\* line 152: setting = v / 32767.0
Setting(v) == [num |-> v, den |-> AxisScale]

(***************************************************************************)
(* Inputs.                                                                 *)
(***************************************************************************)
\* raw axis values: the ends of the signed 16-bit range and the deadzone edges
RawValues == {-32768, -2000, -1999, 1999, 2000, 32767}

\* the SDL indices a controller can have
Ids == 0 .. (MaxDevices - 1)

\* the device ids the caller passes: two controllers and an id that is none
CallIds == {0, 1, BadId}

AxisEvent(w, a, v) == [type |-> SDL_CONTROLLERAXISMOTION, which |-> w, idx |-> a, value |-> v]

ButtonEvent(w, t, b) == [type |-> t, which |-> w, idx |-> b, value |-> 0]

OtherEvent(w) == [type |-> SDL_OTHEREVENT, which |-> w, idx |-> 0, value |-> 0]

\* A name is a base string followed by the numbers that "{0} #{1}" appended
HwName(b) == [base |-> b, sfx |-> << >>]

\* hardware names SDL_GameControllerNameForIndex reports
HwNames == {HwName("X")}

\* The environment of one specification: what the global SDL source produces
\* (events), how many events in all (nev), how many controllers there can be
\* (ndev), the ids the caller passes (ids), the largest reference count (refs),
\* the hardware names the controllers can report (names).
SysEvents ==
  {AxisEvent(0, SDL_CONTROLLER_AXIS_TRIGGERLEFT, 2000),
   ButtonEvent(1, SDL_CONTROLLERBUTTONDOWN, SDL_CONTROLLER_BUTTON_A),
   OtherEvent(BadId), OtherEvent(NoWhich)}

SysEnv ==
  [events |-> SysEvents, nev |-> MaxEvents, ndev |-> MaxDevices,
   ids |-> CallIds, refs |-> MaxRefs, names |-> HwNames]

\* The environment in which read() is examined: one controller; both triggers,
\* a stick axis, a button, an event of another type.
ReadEvents ==
  {AxisEvent(0, SDL_CONTROLLER_AXIS_TRIGGERLEFT, v) : v \in {-2000, 1999, 2000}}
    \cup {AxisEvent(0, SDL_CONTROLLER_AXIS_TRIGGERRIGHT, 2000),
          AxisEvent(0, SDL_CONTROLLER_AXIS_LEFTX, 32767)}
    \cup {ButtonEvent(0, t, SDL_CONTROLLER_BUTTON_DPAD_RIGHT) :
             t \in {SDL_CONTROLLERBUTTONDOWN, SDL_CONTROLLERBUTTONUP}}
    \cup {OtherEvent(0), OtherEvent(NoWhich)}

ReadEnv ==
  [events |-> ReadEvents, nev |-> MaxEvents, ndev |-> 1, ids |-> {0}, refs |-> 1,
   names |-> HwNames]

\* The environment in which the arithmetic of read() is examined: one controller,
\* one axis, every raw value.
NumEvents ==
  {AxisEvent(0, SDL_CONTROLLER_AXIS_TRIGGERLEFT, v) : v \in RawValues}
    \cup {OtherEvent(NoWhich)}

NumEnv ==
  [events |-> NumEvents, nev |-> MaxEvents, ndev |-> 1, ids |-> {0}, refs |-> 1,
   names |-> HwNames]

\* The environment in which the frame of read() is examined: two controllers;
\* a stick axis and a button of the first, a trigger of the second.
FrameEvents ==
  {AxisEvent(0, SDL_CONTROLLER_AXIS_LEFTX, 32767),
   ButtonEvent(0, SDL_CONTROLLERBUTTONDOWN, SDL_CONTROLLER_BUTTON_DPAD_RIGHT),
   AxisEvent(1, SDL_CONTROLLER_AXIS_TRIGGERLEFT, 2000),
   OtherEvent(NoWhich)}

FrameEnv ==
  [events |-> FrameEvents, nev |-> MaxEvents, ndev |-> MaxDevices,
   ids |-> {0, 1}, refs |-> 1, names |-> HwNames]

\* The environment in which devices() is examined: one controller more than
\* elsewhere, two hardware names; the caller uses the first controller only.
NamesEvents == {AxisEvent(0, SDL_CONTROLLER_AXIS_TRIGGERLEFT, 2000), OtherEvent(NoWhich)}

NamesEnv ==
  [events |-> NamesEvents, nev |-> MaxEvents, ndev |-> MaxDevices + 1, ids |-> {0},
   refs |-> 1, names |-> {HwName("X"), HwName("Y")}]

\* The events of the specification of the calls on enumerated devices
OpenEvents ==
  {AxisEvent(0, SDL_CONTROLLER_AXIS_TRIGGERLEFT, 2000), OtherEvent(BadId),
   OtherEvent(NoWhich)}

\* the device ids the caller passes in that specification
OpenIds == {0, 1}

\* The environment in which the termination of read() is examined: one
\* controller; an axis event, a button event, an event without jdevice.which.
TermEvents ==
  {AxisEvent(0, SDL_CONTROLLER_AXIS_TRIGGERLEFT, 2000),
   ButtonEvent(0, SDL_CONTROLLERBUTTONDOWN, SDL_CONTROLLER_BUTTON_A),
   OtherEvent(NoWhich)}

TermEnv ==
  [events |-> TermEvents, nev |-> MaxEvents, ndev |-> 1, ids |-> {0}, refs |-> 1,
   names |-> HwNames]

\* the lists one get_events() call can return when n more events may come
Batches(events, n) == UNION {[1 .. k -> events] : k \in 0 .. n}

(***************************************************************************)
(* State.                                                                  *)
(***************************************************************************)
VARIABLES
  js,           \* SDL2GameController._js: device id -> _JS object
  devicesList,  \* SDL2GameController._devices
  enable,       \* _SDLEventDispatcher.enable
  pcD,          \* position of the dispatcher thread in run()
  batch,        \* events of the running for loop of run() not yet handled
  pcC,          \* position of the caller's thread: "idle" or inside "read"
  rd,           \* the device the running read() drains
  sdlRef,       \* SDL's reference count of each controller
  numQueries,   \* number of SDL_NumJoysticks calls made
  numTaken,     \* number of events taken from the global source
  sent,         \* history: per device id, the events taken for it, in order
  got,          \* history: the events each device's read() took off its queue
  discarded,    \* history: events a read() took and did not apply (it raised)
  snap,         \* history: the running or last read(): what it found, how it ended
  session,      \* history: per device, Len(got) when open() was last called on it
  wasOpened,    \* history: the devices open() has been called on
  fresh         \* history: the device whose open() was the latest call, unless
                \* an event was put on its queue since

vars == <<js, devicesList, enable, pcD, batch, pcC, rd, sdlRef, numQueries, numTaken,
          sent, got, discarded, snap, session, wasOpened, fresh>>

(***************************************************************************)
(* class _JS                                                               *)
(***************************************************************************)
\* __init__ with the two lists already at their full length
JS_init_sized(sdl_index, name) ==
  [axes |-> [i \in 1 .. SDL_CONTROLLER_AXIS_MAX |-> Zero],
   buttons |-> [i \in 1 .. (SDL_CONTROLLER_BUTTON_MAX + 2) |-> 0],
   j |-> None, index |-> sdl_index, name |-> name, event_queue |-> << >>]

\* _JS.__init__
JS_init(sdl_index, name) ==
  [axes |-> << >>, buttons |-> << >>, j |-> None, index |-> sdl_index,
   name |-> name, event_queue |-> << >>]

\* open without the two entries of the synthetic trigger buttons
JS_open_short(s) ==
  [s EXCEPT !.j = Handle,
            !.axes = [i \in 1 .. SDL_CONTROLLER_AXIS_MAX |-> Zero],
            !.buttons = [i \in 1 .. SDL_CONTROLLER_BUTTON_MAX |-> 0]]

\* _JS.open: the two lists are created anew, filled with 0
JS_open(s) ==
  [s EXCEPT !.j = Handle,
            !.axes = [i \in 1 .. SDL_CONTROLLER_AXIS_MAX |-> Zero],
            !.buttons = [i \in 1 .. (SDL_CONTROLLER_BUTTON_MAX + 2) |-> 0]]

\* close without the test of line 137
JS_releases_always(s) == TRUE

\* _JS.close calls SDL_GameControllerClose only when it holds a handle
JS_releases(s) == s.j # None

\* _JS.close
JS_close(s) == [s EXCEPT !.j = None]

\* _JS.add_event
JS_add_event(s, event) == [s EXCEPT !.event_queue = Append(@, event)]

\* a queue that hands out its newest item
Queue_get_lifo(q) == [item |-> q[Len(q)], rest |-> SubSeq(q, 1, Len(q) - 1)]

\* Queue.get_nowait of a queue that is not empty: the oldest item
Queue_get(q) == [item |-> Head(q), rest |-> Tail(q)]

\* a queue whose empty() never answers True
Queue_empty_never(q) == FALSE

\* Queue.empty
Queue_empty(q) == q = << >>

\* list[i] = x of Python for an index i >= 0: IndexError when i >= len(list)
InRange(list, i) == i < Len(list)

\* the test with 0 included
Pressed_nonneg(v) == IF v >= 0 THEN 1 ELSE 0

\* lines 158 and 161: 1 if v > 0 else 0
Pressed(v) == IF v > 0 THEN 1 ELSE 0

\* one axis event, with the left trigger's button set by an event of any axis
JS_read_axis_anytrigger(s, e) ==
  LET v == Deadzone(e.value)
      n == Len(s.buttons)
  IN  IF ~InRange(s.axes, e.idx) \/ n < 1 THEN [js |-> s, raised |-> TRUE]
      ELSE [js |-> [s EXCEPT !.axes[e.idx + 1] = Setting(v), !.buttons[n] = Pressed(v)],
            raised |-> FALSE]

\* lines 147-161 of _JS.read: one axis event
JS_read_axis(s, e) ==
  LET v == Deadzone(e.value)
      a == e.idx
      n == Len(s.buttons)
      s1 == [s EXCEPT !.axes[a + 1] = Setting(v)]
      s2 == IF a = SDL_CONTROLLER_AXIS_TRIGGERLEFT
              THEN [s1 EXCEPT !.buttons[n] = Pressed(v)]
              ELSE s1
      s3 == IF a = SDL_CONTROLLER_AXIS_TRIGGERRIGHT
              THEN [s2 EXCEPT !.buttons[n - 1] = Pressed(v)]
              ELSE s2
  IN  IF ~InRange(s.axes, a) THEN [js |-> s, raised |-> TRUE]
      ELSE IF a = SDL_CONTROLLER_AXIS_TRIGGERLEFT /\ n < 1 THEN [js |-> s1, raised |-> TRUE]
      ELSE IF a = SDL_CONTROLLER_AXIS_TRIGGERRIGHT /\ n < 2 THEN [js |-> s2, raised |-> TRUE]
      ELSE [js |-> s3, raised |-> FALSE]

\* lines 163-167 of _JS.read: one button event
JS_read_button(s, e) ==
  IF ~InRange(s.buttons, e.idx) THEN [js |-> s, raised |-> TRUE]
  ELSE [js |-> [s EXCEPT !.buttons[e.idx + 1] =
                  IF e.type = SDL_CONTROLLERBUTTONDOWN THEN 1 ELSE 0],
        raised |-> FALSE]

\* the body of the while loop of _JS.read for the event e just taken
JS_read_event(s, e) ==
  IF e.type = SDL_CONTROLLERAXISMOTION THEN JS_read_axis(s, e)
  ELSE IF e.type \in {SDL_CONTROLLERBUTTONDOWN, SDL_CONTROLLERBUTTONUP}
    THEN JS_read_button(s, e)
  ELSE [js |-> s, raised |-> FALSE]

(***************************************************************************)
(* SDL2GameController.devices                                              *)
(***************************************************************************)
\* list.count
Count(list, x) == Cardinality({i \in DOMAIN list : list[i] = x})

\* "{0} #{1}".format(name, k)
Format(name, k) == [name EXCEPT !.sfx = Append(@, k)]

\* lines 219-222: the name given to a controller, after the names given so far
NameFor(names, name) ==
  IF Count(names, name) > 0 THEN Format(name, Count(names, name) + 1) ELSE name

\* the list "names" after the first k rounds of the loop over hw
RECURSIVE Names(_, _)
Names(hw, k) ==
  IF k = 0 THEN << >>
  ELSE LET before == Names(hw, k - 1) IN Append(before, NameFor(before, hw[k]))

\* lines 215-227: the device list and the _JS objects for the hardware hw
Enumerated(hw) ==
  [i \in 1 .. Len(hw) |-> [id |-> i - 1, name |-> Names(hw, Len(hw))[i]]]

NewJS(hw) ==
  [i \in 0 .. (Len(hw) - 1) |-> JS_init(i, Names(hw, Len(hw))[i + 1])]

\* self._js[sdl_index] = _JS(...) for every index of new, the others kept
Update(old, new) ==
  [i \in DOMAIN old \cup DOMAIN new |-> IF i \in DOMAIN new THEN new[i] ELSE old[i]]

\* no read() is running or has just ended
NoSnap == [state |-> "none"]

Init ==
  /\ js = << >>
  /\ devicesList = << >>
  /\ enable = FALSE
  /\ pcD = "check"
  /\ batch = << >>
  /\ pcC = "idle"
  /\ rd = None
  /\ sdlRef = [i \in Ids |-> 0]
  /\ numQueries = 0
  /\ numTaken = 0
  /\ sent = [i \in Ids |-> << >>]
  /\ got = [i \in Ids |-> << >>]
  /\ discarded = 0
  /\ snap = NoSnap
  /\ session = [i \in Ids |-> 0]
  /\ wasOpened = {}
  /\ fresh = {}

(***************************************************************************)
(* The caller's thread: SDL2GameController.devices/open/close/read         *)
(***************************************************************************)
\* devices(), first branch: the list is empty, the hardware is enumerated
devices_enumerate(ndev, names) ==
  /\ pcC = "idle"
  /\ Len(devicesList) = 0
  /\ numQueries < MaxEnum
  /\ \E n \in 0 .. ndev :
       \E hw \in [1 .. n -> names] :
         /\ devicesList' = devicesList \o Enumerated(hw)
         /\ js' = Update(js, NewJS(hw))
  /\ numQueries' = numQueries + 1
  /\ snap' = NoSnap
  /\ fresh' = {}
  /\ UNCHANGED <<enable, pcD, batch, pcC, rd, sdlRef, numTaken, sent, got, discarded,
                 session, wasOpened>>

\* devices(), second branch: the list is returned as it is
devices_cached ==
  /\ pcC = "idle"
  /\ Len(devicesList) # 0
  /\ snap' = NoSnap
  /\ fresh' = {}
  /\ UNCHANGED <<js, devicesList, enable, pcD, batch, pcC, rd, sdlRef, numQueries,
                 numTaken, sent, got, discarded, session, wasOpened>>

\* open(device_id) of an enumerated device
open(device_id, refs) ==
  /\ pcC = "idle"
  /\ device_id \in DOMAIN js
  /\ sdlRef[device_id] < refs
  /\ enable' = TRUE
  /\ js' = [js EXCEPT ![device_id] = JS_open(@)]
  /\ sdlRef' = [sdlRef EXCEPT ![device_id] = @ + 1]
  /\ wasOpened' = wasOpened \cup {device_id}
  /\ session' = [session EXCEPT ![device_id] = Len(got[device_id])]
  /\ fresh' = {device_id}
  /\ snap' = NoSnap
  /\ UNCHANGED <<devicesList, pcD, batch, pcC, rd, numQueries, numTaken, sent, got,
                 discarded>>

\* open(device_id) of an unknown id: enable is set, then self._js[...] raises KeyError
open_KeyError(device_id) ==
  /\ pcC = "idle"
  /\ device_id \notin DOMAIN js
  /\ enable' = TRUE
  /\ snap' = NoSnap
  /\ fresh' = {}
  /\ UNCHANGED <<js, devicesList, pcD, batch, pcC, rd, sdlRef, numQueries, numTaken,
                 sent, got, discarded, session, wasOpened>>

\* close that leaves the dispatcher's flag as it is
close_keeps_enable(device_id) ==
  /\ pcC = "idle"
  /\ device_id \in DOMAIN js
  /\ sdlRef' = IF JS_releases(js[device_id])
                 THEN [sdlRef EXCEPT ![device_id] = @ - 1]
                 ELSE sdlRef
  /\ js' = [js EXCEPT ![device_id] = JS_close(@)]
  /\ snap' = NoSnap
  /\ fresh' = {}
  /\ UNCHANGED <<devicesList, enable, pcD, batch, pcC, rd, numQueries, numTaken, sent,
                 got, discarded, session, wasOpened>>

\* close(device_id) of an enumerated device
close(device_id) ==
  /\ pcC = "idle"
  /\ device_id \in DOMAIN js
  /\ enable' = FALSE
  /\ sdlRef' = IF JS_releases(js[device_id])
                 THEN [sdlRef EXCEPT ![device_id] = @ - 1]
                 ELSE sdlRef
  /\ js' = [js EXCEPT ![device_id] = JS_close(@)]
  /\ snap' = NoSnap
  /\ fresh' = {}
  /\ UNCHANGED <<devicesList, pcD, batch, pcC, rd, numQueries, numTaken, sent, got,
                 discarded, session, wasOpened>>

\* close(device_id) of an unknown id: enable is cleared, then KeyError
close_KeyError(device_id) ==
  /\ pcC = "idle"
  /\ device_id \notin DOMAIN js
  /\ enable' = FALSE
  /\ snap' = NoSnap
  /\ fresh' = {}
  /\ UNCHANGED <<js, devicesList, pcD, batch, pcC, rd, sdlRef, numQueries, numTaken,
                 sent, got, discarded, session, wasOpened>>

\* read(device_id) is entered: the while loop of _JS.read starts
read(device_id) ==
  /\ pcC = "idle"
  /\ device_id \in DOMAIN js
  /\ pcC' = "read"
  /\ rd' = device_id
  /\ snap' = [dev |-> device_id, axes |-> js[device_id].axes,
              buttons |-> js[device_id].buttons,
              event_queue |-> js[device_id].event_queue,
              mark |-> Len(got[device_id]), dispatched |-> FALSE,
              fresh |-> device_id \in fresh, state |-> "running"]
  /\ fresh' = {}
  /\ UNCHANGED <<js, devicesList, enable, pcD, batch, sdlRef, numQueries, numTaken,
                 sent, got, discarded, session, wasOpened>>

\* read(device_id) of an unknown id: KeyError
read_KeyError(device_id) ==
  /\ pcC = "idle"
  /\ device_id \notin DOMAIN js
  /\ snap' = NoSnap
  /\ fresh' = {}
  /\ UNCHANGED <<js, devicesList, enable, pcD, batch, pcC, rd, sdlRef, numQueries,
                 numTaken, sent, got, discarded, session, wasOpened>>

\* one round of the while loop: the queue is not empty, its head is taken and applied
read_event ==
  /\ pcC = "read"
  /\ js[rd].event_queue # << >>
  /\ LET e == Queue_get(js[rd].event_queue).item
         r == JS_read_event(
                [js[rd] EXCEPT !.event_queue = Queue_get(js[rd].event_queue).rest], e)
     IN  /\ js' = [js EXCEPT ![rd] = r.js]
         /\ got' = [got EXCEPT ![rd] = Append(@, e)]
         /\ IF r.raised
              THEN /\ pcC' = "idle"
                   /\ rd' = None
                   /\ snap' = [snap EXCEPT !.state = "raised"]
                   /\ discarded' = discarded + 1
              ELSE UNCHANGED <<pcC, rd, snap, discarded>>
  /\ UNCHANGED <<devicesList, enable, pcD, batch, sdlRef, numQueries, numTaken, sent,
                 session, wasOpened, fresh>>

\* the queue is empty: the loop ends and read returns [axes, buttons]
read_return ==
  /\ pcC = "read"
  /\ Queue_empty(js[rd].event_queue)
  /\ pcC' = "idle"
  /\ rd' = None
  /\ snap' = [snap EXCEPT !.state = "returned"]
  /\ UNCHANGED <<js, devicesList, enable, pcD, batch, sdlRef, numQueries, numTaken,
                 sent, got, discarded, session, wasOpened, fresh>>

(***************************************************************************)
(* The dispatcher thread: _SDLEventDispatcher.run                          *)
(***************************************************************************)
\* line 77: enable is read and found set (found clear: sleep, then again)
run_enabled ==
  /\ pcD = "check"
  /\ enable
  /\ pcD' = "fetch"
  /\ UNCHANGED <<js, devicesList, enable, batch, pcC, rd, sdlRef, numQueries, numTaken,
                 sent, got, discarded, snap, session, wasOpened, fresh>>

\* the events of b that carry the device id d
For(b, d) == SelectSeq(b, LAMBDA e : e.which = d)

\* line 78: sdl2.ext.get_events() takes the pending events from the source
run_get_events(events, nev) ==
  /\ pcD = "fetch"
  /\ \E b \in Batches(events, nev - numTaken) :
       /\ numTaken' = numTaken + Len(b)
       /\ sent' = [d \in Ids |-> sent[d] \o For(b, d)]
       /\ batch' = b
       /\ pcD' = IF b = << >> THEN "check" ELSE "deliver"
  /\ UNCHANGED <<js, devicesList, enable, pcC, rd, sdlRef, numQueries,
                 got, discarded, snap, session, wasOpened, fresh>>

\* where the thread goes after an event of the for loop is done with
AfterEvent == IF Tail(batch) = << >> THEN "check" ELSE "deliver"

\* lines 81 and 203-204: the callback puts the event on its device's queue
_dispatch_events ==
  /\ pcD = "deliver"
  /\ Head(batch).which # NoWhich
  /\ Head(batch).which \in DOMAIN js
  /\ js' = [js EXCEPT ![Head(batch).which] = JS_add_event(@, Head(batch))]
  /\ snap' = IF snap.state # "none" /\ snap.dev = Head(batch).which
               THEN [snap EXCEPT !.dispatched = TRUE]
               ELSE snap
  /\ fresh' = fresh \ {Head(batch).which}
  /\ batch' = Tail(batch)
  /\ pcD' = AfterEvent
  /\ UNCHANGED <<devicesList, enable, pcC, rd, sdlRef, numQueries, numTaken,
                 sent, got, discarded, session, wasOpened>>

\* lines 82-83: the event has no jdevice.which, AttributeError is swallowed
run_AttributeError ==
  /\ pcD = "deliver"
  /\ Head(batch).which = NoWhich
  /\ batch' = Tail(batch)
  /\ pcD' = AfterEvent
  /\ UNCHANGED <<js, devicesList, enable, pcC, rd, sdlRef, numQueries, numTaken,
                 sent, got, discarded, snap, session, wasOpened, fresh>>

\* line 204: self._js[device_id] raises KeyError, which run() does not catch:
\* the thread ends, the rest of the for loop is never handled
run_KeyError ==
  /\ pcD = "deliver"
  /\ Head(batch).which # NoWhich
  /\ Head(batch).which \notin DOMAIN js
  /\ pcD' = "dead"
  /\ UNCHANGED <<js, devicesList, enable, batch, pcC, rd, sdlRef, numQueries, numTaken,
                 sent, got, discarded, snap, session, wasOpened, fresh>>

\* every step of the two threads in the environment env
NextIn(env) ==
  \/ devices_enumerate(env.ndev, env.names)
  \/ devices_cached
  \/ \E device_id \in env.ids : open(device_id, env.refs)
  \/ \E device_id \in env.ids : open_KeyError(device_id)
  \/ \E device_id \in env.ids : close(device_id)
  \/ \E device_id \in env.ids : close_KeyError(device_id)
  \/ \E device_id \in env.ids : read(device_id)
  \/ \E device_id \in env.ids : read_KeyError(device_id)
  \/ read_event
  \/ read_return
  \/ run_enabled
  \/ run_get_events(env.events, env.nev)
  \/ _dispatch_events
  \/ run_AttributeError
  \/ run_KeyError

Next == NextIn(SysEnv)

Spec == Init /\ [][Next]_vars

NextRead == NextIn(ReadEnv)

SpecRead == Init /\ [][NextRead]_vars

NextNum == NextIn(NumEnv)

SpecNum == Init /\ [][NextNum]_vars

NextFrame == NextIn(FrameEnv)

SpecFrame == Init /\ [][NextFrame]_vars

\* The caller passes ids of enumerated devices only, and may open a device
\* again before closing it: every step of the two threads but the calls that
\* raise KeyError.
NextOpen ==
  \/ devices_enumerate(MaxDevices, HwNames)
  \/ devices_cached
  \/ \E device_id \in OpenIds : open(device_id, MaxRefs + 1)
  \/ \E device_id \in OpenIds : close(device_id)
  \/ \E device_id \in OpenIds : read(device_id)
  \/ read_event
  \/ read_return
  \/ run_enabled
  \/ run_get_events(OpenEvents, MaxEvents)
  \/ _dispatch_events
  \/ run_AttributeError
  \/ run_KeyError

SpecOpen == Init /\ [][NextOpen]_vars

NextNames == NextIn(NamesEnv)

SpecNames == Init /\ [][NextNames]_vars

NextTerm == NextIn(TermEnv)

\* The caller's thread goes on running while it is inside read(): a round of
\* the while loop or the return that can be taken is taken.
SpecTerm == Init /\ [][NextTerm]_vars /\ WF_vars(read_event) /\ WF_vars(read_return)

(***************************************************************************)
(* What the claims speak of.                                               *)
(***************************************************************************)
\* read(d) has returned [axes, buttons] and no other call has been made since
Returned(d) == snap.state = "returned" /\ snap.dev = d

\* read(d) has ended, by returning or by raising, and no other call was made since
Ended(d) == snap.state \in {"returned", "raised"} /\ snap.dev = d

\* the events the running or last read() has taken off the queue
Popped == SubSeq(got[snap.dev], snap.mark + 1, Len(got[snap.dev]))

\* the events read(d) has taken since open(d) was last called
SinceOpen(d) == SubSeq(got[d], session[d] + 1, Len(got[d]))

\* the place of the last event of list that passes Test, 0 when there is none
LastOf(list, Test(_)) ==
  LET S == {i \in DOMAIN list : Test(list[i])}
  IN  IF S = {} THEN 0 ELSE CHOOSE i \in S : \A k \in S : k <= i

\* the place of the last motion event of axis a in list
LastAxis(list, a) ==
  LastOf(list, LAMBDA e : e.type = SDL_CONTROLLERAXISMOTION /\ e.idx = a)

\* the place of the last down or up event of button b in list
LastButton(list, b) ==
  LastOf(list, LAMBDA e : e.type \in {SDL_CONTROLLERBUTTONDOWN, SDL_CONTROLLERBUTTONUP}
                            /\ e.idx = b)

IsPrefix(p, q) == Len(p) <= Len(q) /\ SubSeq(q, 1, Len(p)) = p

\* x = n/d as numbers
RatEq(x, n, d) == x.num * d = n * x.den

Axes == 0 .. (SDL_CONTROLLER_AXIS_MAX - 1)

Buttons == 0 .. (SDL_CONTROLLER_BUTTON_MAX - 1)

\* the synthetic button of a trigger axis: buttons[-1] for the left trigger,
\* buttons[-2] for the right one, as places of a list counted from 1
TriggerButton(a) ==
  IF a = SDL_CONTROLLER_AXIS_TRIGGERLEFT
    THEN SDL_CONTROLLER_BUTTON_MAX + 2
    ELSE SDL_CONTROLLER_BUTTON_MAX + 1

Triggers == {SDL_CONTROLLER_AXIS_TRIGGERLEFT, SDL_CONTROLLER_AXIS_TRIGGERRIGHT}

(***************************************************************************)
(* C1: when read(d) on an opened device has returned, the events it took   *)
(* are the events it found queued, oldest first, followed by those put on  *)
(* the queue meanwhile; every axis and every button (the two synthetic     *)
(* trigger buttons included) has the value the last taken event for it     *)
(* sets, or the value it had when read(d) began (the one the previous      *)
(* read returned) when no taken event touches it; and when no event has    *)
(* been dispatched to d since read(d) began, d's queue is empty.           *)
(***************************************************************************)
C1_ReadAppliesLastEvent ==
  \A d \in DOMAIN js :
    (Returned(d) /\ d \in wasOpened) =>
      /\ IsPrefix(snap.event_queue, Popped)
      /\ ~snap.dispatched => Popped = snap.event_queue /\ js[d].event_queue = << >>
      /\ \A a \in Axes :
           LET i == LastAxis(Popped, a)
           IN  js[d].axes[a + 1] =
                 IF i = 0 THEN snap.axes[a + 1] ELSE Setting(Deadzone(Popped[i].value))
      /\ \A b \in Buttons :
           LET i == LastButton(Popped, b)
           IN  js[d].buttons[b + 1] =
                 IF i = 0 THEN snap.buttons[b + 1]
                 ELSE IF Popped[i].type = SDL_CONTROLLERBUTTONDOWN THEN 1 ELSE 0
      /\ \A a \in Triggers :
           LET i == LastAxis(Popped, a)
           IN  js[d].buttons[TriggerButton(a)] =
                 IF i = 0 THEN snap.buttons[TriggerButton(a)]
                 ELSE IF Deadzone(Popped[i].value) > 0 THEN 1 ELSE 0

\* read(0) returned after taking an event, and an axis that no taken event
\* touches kept the non-zero value an earlier read gave it
C1_Witness ==
  /\ Returned(0)
  /\ 0 \in wasOpened
  /\ Popped # << >>
  /\ \E a \in Axes : LastAxis(Popped, a) = 0 /\ ~IsZero(js[0].axes[a + 1])

(***************************************************************************)
(* C2: every axis value read(d) returns lies in [-1, 1].                   *)
(***************************************************************************)
C2_AxesInUnit ==
  \A d \in DOMAIN js :
    Returned(d) => \A i \in DOMAIN js[d].axes : InUnit(js[d].axes[i])

(***************************************************************************)
(* C3: the deadzone is honoured.  When read(d) has returned, an axis whose  *)
(* last taken event has a raw value v with |v| < 2000 is exactly 0, one     *)
(* with |v| >= 2000 is v/32767 and not 0; and no axis of any device ever    *)
(* holds a non-zero value of magnitude below 2000/32767.                    *)
(***************************************************************************)
C3_DeadzoneHonoured ==
  /\ \A d \in DOMAIN js :
       Returned(d) /\ d \in wasOpened =>
         \A a \in Axes :
           LET i == LastAxis(Popped, a)
               x == js[d].axes[a + 1]
           IN  i # 0 =>
                 IF Abs(Popped[i].value) < 2000
                   THEN IsZero(x)
                   ELSE RatEq(x, Popped[i].value, 32767) /\ ~IsZero(x)
  /\ \A d \in DOMAIN js :
       \A i \in DOMAIN js[d].axes :
         IsZero(js[d].axes[i]) \/ ~AbsBelow(js[d].axes[i], 2000, 32767)

\* read(0) returned after taking an event with a raw value outside the deadzone
\* and then one for the same axis with a raw value just inside it
C3_Witness ==
  /\ Returned(0)
  /\ 0 \in wasOpened
  /\ Len(Popped) = 2
  /\ Popped[1].idx = Popped[2].idx
  /\ Abs(Popped[1].value) >= 2000
  /\ Abs(Popped[2].value) = 1999

(***************************************************************************)
(* C4: when read(d) has returned, the last button entry is 1 exactly when   *)
(* the last left-trigger event taken since open(d) had a deadzone-filtered  *)
(* value > 0, the entry before it likewise for the right trigger; so each   *)
(* is 1 exactly when the returned value of its trigger axis is > 0.         *)
(***************************************************************************)
C4_TriggerButtons ==
  \A d \in DOMAIN js :
    Returned(d) /\ d \in wasOpened =>
      /\ js[d].buttons[Len(js[d].buttons)] \in {0, 1}
      /\ js[d].buttons[Len(js[d].buttons) - 1] \in {0, 1}
      /\ LET i == LastAxis(SinceOpen(d), SDL_CONTROLLER_AXIS_TRIGGERLEFT)
         IN  js[d].buttons[Len(js[d].buttons)] = 1
               <=> (i # 0 /\ Deadzone(SinceOpen(d)[i].value) > 0)
      /\ LET i == LastAxis(SinceOpen(d), SDL_CONTROLLER_AXIS_TRIGGERRIGHT)
         IN  js[d].buttons[Len(js[d].buttons) - 1] = 1
               <=> (i # 0 /\ Deadzone(SinceOpen(d)[i].value) > 0)
      /\ js[d].buttons[Len(js[d].buttons)] = 1
           <=> Positive(js[d].axes[SDL_CONTROLLER_AXIS_TRIGGERLEFT + 1])
      /\ js[d].buttons[Len(js[d].buttons) - 1] = 1
           <=> Positive(js[d].axes[SDL_CONTROLLER_AXIS_TRIGGERRIGHT + 1])

\* read(0) returned with the right trigger pressed and the left trigger moved
\* by an event that leaves its button at 0
C4_Witness ==
  /\ Returned(0)
  /\ 0 \in wasOpened
  /\ js[0].buttons[SDL_CONTROLLER_BUTTON_MAX + 1] = 1
  /\ js[0].buttons[SDL_CONTROLLER_BUTTON_MAX + 2] = 0
  /\ LastAxis(SinceOpen(0), SDL_CONTROLLER_AXIS_TRIGGERLEFT) # 0

(***************************************************************************)
(* C5: every close(d) of an enumerated device leaves d without a handle     *)
(* and the dispatcher's enable flag False, whatever the other devices hold; *)
(* and when d holds no handle, SDL_GameControllerClose is not called, so    *)
(* no reference count changes.                                              *)
(***************************************************************************)
C5_CloseReleases ==
  [][\A d \in CallIds :
       close(d) => /\ js'[d].j = None
                   /\ ~enable'
                   /\ js[d].j = None => sdlRef' = sdlRef]_vars

\* device 0 has been closed while device 1 holds its handle
C5_Witness ==
  /\ DOMAIN js = {0, 1}
  /\ 0 \in wasOpened
  /\ js[0].j = None
  /\ js[1].j = Handle
  /\ sdlRef[0] = 0
  /\ ~enable

(***************************************************************************)
(* C6: once devices() has queried SDL_NumJoysticks, no later step queries   *)
(* it again, changes the device list or adds a per-device object.           *)
(***************************************************************************)
C6_EnumeratesOnce ==
  [][numQueries >= 1 =>
       /\ numQueries' = numQueries
       /\ devicesList' = devicesList
       /\ DOMAIN js' = DOMAIN js]_vars

(***************************************************************************)
(* C7: a read(d) of a device that was never opened and that found an axis   *)
(* or button event queued ends by raising an error; a read(d) of a device   *)
(* that was opened ends by returning.                                       *)
(***************************************************************************)
C7_OpenBeforeRead ==
  \A d \in DOMAIN js :
    Ended(d) =>
      /\ (/\ d \notin wasOpened
          /\ \E i \in DOMAIN snap.event_queue :
               snap.event_queue[i].type \in
                 {SDL_CONTROLLERAXISMOTION, SDL_CONTROLLERBUTTONDOWN,
                  SDL_CONTROLLERBUTTONUP})
           => snap.state = "raised"
      /\ d \in wasOpened => snap.state = "returned"

\* a read of a device never opened found an event queued and raised
C7_Witness ==
  /\ snap.state = "raised"
  /\ snap.dev \notin wasOpened
  /\ snap.event_queue # << >>

(***************************************************************************)
(* C8: in every state after open(d), the axis list of d has                 *)
(* SDL_CONTROLLER_AXIS_MAX entries and its button list has                  *)
(* SDL_CONTROLLER_BUTTON_MAX + 2 entries.                                   *)
(***************************************************************************)
C8_ArrayLengths ==
  \A d \in wasOpened :
    /\ Len(js[d].axes) = SDL_CONTROLLER_AXIS_MAX
    /\ Len(js[d].buttons) = SDL_CONTROLLER_BUTTON_MAX + 2

\* a device was opened, read an event, was opened again, read another event
\* and was closed
C8_Witness ==
  \E d \in wasOpened :
    /\ discarded = 0
    /\ session[d] > 0
    /\ Len(got[d]) > session[d]
    /\ js[d].j = None

\* the events of the for loop of run() that are still to be handled
Pending == IF pcD = "deliver" THEN batch ELSE << >>

(***************************************************************************)
(* C9: every event taken from the global source with the id of a device d   *)
(* is, in the order taken, either still to be handled by the dispatcher,    *)
(* on d's queue, or taken off it by a read(d) that applied it; no read has  *)
(* taken an event without applying it.                                      *)
(***************************************************************************)
C9_FanOutExact ==
  /\ discarded = 0
  /\ \A d \in DOMAIN js :
       got[d] \o js[d].event_queue \o For(Pending, d) = sent[d]

(***************************************************************************)
(* C10: the dispatcher thread never stops: no event makes an error leave    *)
(* the loop of run().                                                       *)
(***************************************************************************)
C10_DispatcherNeverStops == pcD # "dead"

(***************************************************************************)
(* C11: the dispatcher fetches events from the global source only while     *)
(* the enable flag is True: every step in which sdl2.ext.get_events() is    *)
(* called starts in a state where enable holds.                             *)
(***************************************************************************)
C11_FetchOnlyWhenEnabled ==
  [][pcD = "fetch" /\ pcD' # "fetch" => enable]_vars
(***************************************************************************)
(* C12: read(d) terminates.  Every read(d) that has begun ends, and one of  *)
(* an opened device ends by returning; when it has returned it has taken    *)
(* the events it found queued, each once; and no event is on a queue or     *)
(* taken by a read more often than it came from the global source.          *)
(***************************************************************************)
C12_ReadTerminates ==
  /\ (pcC = "read") ~> (pcC = "idle")
  /\ (pcC = "read" /\ rd \in wasOpened) ~> (snap.state = "returned")
  /\ [](\A d \in DOMAIN js :
          /\ Returned(d) => IsPrefix(snap.event_queue, Popped)
          /\ Returned(d) /\ ~snap.dispatched => Popped = snap.event_queue
          /\ d \in Ids => IsPrefix(got[d] \o js[d].event_queue, sent[d]))

\* read(0) of an opened device found two events queued and has returned
C12_Witness ==
  /\ Returned(0)
  /\ 0 \in wasOpened
  /\ Len(snap.event_queue) = 2
  /\ Len(Popped) = 2
(***************************************************************************)
(* C13: the frame of read(d) on an opened device.  A round of its loop that *)
(* takes a button event for button b changes of d's lists only button      *)
(* entry b: every axis, every other button and both synthetic trigger       *)
(* entries stay; one that takes an event of an axis that is no trigger      *)
(* changes only that axis entry and no button; and no step of read(d)       *)
(* changes the axes, the buttons or the queue of another device.            *)
(***************************************************************************)
C13_ReadFrame ==
  [][/\ (read_event /\ rd \in wasOpened) =>
          LET e == Head(js[rd].event_queue)
          IN  /\ \A d \in DOMAIN js : d # rd => js'[d] = js[d]
              /\ (e.type \in {SDL_CONTROLLERBUTTONDOWN, SDL_CONTROLLERBUTTONUP}
                    /\ e.idx < SDL_CONTROLLER_BUTTON_MAX) =>
                   /\ js'[rd].axes = js[rd].axes
                   /\ Len(js'[rd].buttons) = Len(js[rd].buttons)
                   /\ \A k \in DOMAIN js[rd].buttons :
                        k # e.idx + 1 => js'[rd].buttons[k] = js[rd].buttons[k]
              /\ (e.type = SDL_CONTROLLERAXISMOTION /\ e.idx \notin Triggers) =>
                   /\ js'[rd].buttons = js[rd].buttons
                   /\ Len(js'[rd].axes) = Len(js[rd].axes)
                   /\ \A k \in DOMAIN js[rd].axes :
                        k # e.idx + 1 => js'[rd].axes[k] = js[rd].axes[k]
     /\ ((\E d \in DOMAIN js : read(d)) \/ read_return) => js' = js]_vars

\* read(0) took a stick event and then a button event while device 1 is open:
\* the stick's axis kept its value, the button is down
C13_Witness ==
  /\ DOMAIN js = {0, 1}
  /\ pcC = "read"
  /\ rd = 0
  /\ 0 \in wasOpened
  /\ Len(Popped) = 2
  /\ ~IsZero(js[0].axes[SDL_CONTROLLER_AXIS_LEFTX + 1])
  /\ js[0].buttons[SDL_CONTROLLER_BUTTON_DPAD_RIGHT + 1] = 1
  /\ js[1].j = Handle
\* at least one device holds an open handle
SomeOpen == \E d \in DOMAIN js : js[d].j # None

C15_OpenStartsClean ==
  \A d \in DOMAIN js :
    (Returned(d) /\ snap.fresh /\ ~snap.dispatched) =>
      /\ \A i \in DOMAIN js[d].axes : IsZero(js[d].axes[i])
      /\ \A i \in DOMAIN js[d].buttons : js[d].buttons[i] = 0
(***************************************************************************)
(* C16: a failing call leaves the adapter unchanged.  An open(x) or         *)
(* close(x) with an id x that no enumerated device has leaves the           *)
(* dispatcher's enable flag, every device handle and every device queue     *)
(* as they were before the call.                                            *)
(***************************************************************************)
C16_FailingCallChangesNothing ==
  [][\A x \in CallIds :
       (open_KeyError(x) \/ close_KeyError(x)) => enable' = enable /\ js' = js]_vars
(***************************************************************************)
(* C17: devices() gives distinct names to distinct devices: no two entries  *)
(* of the device list have the same name, whatever hardware names the       *)
(* controllers report; the ids of the entries are the SDL indices 0..n-1,   *)
(* and each has its own per-device object.                                  *)
(***************************************************************************)
C17_DistinctNames ==
  /\ \A i, k \in DOMAIN devicesList :
       i # k => devicesList[i].name # devicesList[k].name
  /\ \A i \in DOMAIN devicesList : devicesList[i].id = i - 1
  /\ DOMAIN js = {devicesList[i].id : i \in DOMAIN devicesList}
  /\ \A d \in DOMAIN js : js[d].index = d
\* the sum of f over the set S
RECURSIVE Sum(_, _)
Sum(f, S) ==
  IF S = {} THEN 0
  ELSE LET x == CHOOSE y \in S : TRUE IN f[x] + Sum(f, S \ {x})

(***************************************************************************)
(* C18: no device handle is leaked.  The number of handles obtained by      *)
(* open and not yet released by close never exceeds the number of devices   *)
(* whose handle slot is not None.                                           *)
(***************************************************************************)
C18_NoHandleLeaked ==
  Sum(sdlRef, Ids) <= Cardinality({d \in DOMAIN js : js[d].j # None})
====
